---- MODULE Spec2Model ----
(***************************************************************************)
(* A model of the weather_app package: the request handler main()          *)
(* (weather_app/__init__.py) with the process-wide requests_cache, and the *)
(* forecast transformation functions of weather_app/utils.py.              *)
(*                                                                         *)
(* Text is modelled as a sequence of tokens (one token per character       *)
(* wherever the code inspects characters).  Decimal numbers are kept as an *)
(* integer numerator with a power-of-ten scale, so that formatting,        *)
(* parsing and rounding are computed rather than assumed.                  *)
(***************************************************************************)
EXTENDS Integers, Sequences, FiniteSets, TLC

(***************************************************************************)
(* Bounds of the model.                                                    *)
(***************************************************************************)
MaxLen == 3          \* longest hand-built (arbitrary) payload
MaxHours == 26       \* longest hourly payload of the weather service
MaxTenths == 150     \* |air_temperature| <= 15.0 in the single-entry payloads

(***************************************************************************)
(* Results of a call: a value, or an exception.                            *)
(***************************************************************************)
Ok(v) == [ok |-> TRUE, val |-> v]
Fail == [ok |-> FALSE]
NotCalled == [called |-> FALSE]

Has(d, key) == key \in DOMAIN d

Abs(n) == IF n < 0 THEN -n ELSE n
Min(a, b) == IF a < b THEN a ELSE b

RECURSIVE Pow10(_)
Pow10(k) == IF k = 0 THEN 1 ELSE 10 * Pow10(k - 1)

(***************************************************************************)
(* JSON scalars as the json decoder hands them to the code.                *)
(* A float carries its value in tenths (the service reports one decimal).  *)
(***************************************************************************)
JInt(n) == [t |-> "int", n |-> n]
JFloat(tenths) == [t |-> "float", f |-> tenths]
JStr(s) == [t |-> "str", s |-> s]
JNull == [t |-> "null"]
NaN == [t |-> "nan"]

IsNumber(j) == j.t \in {"int", "float"}
\* the numeric value of a JSON number, in tenths
Tenths(j) == IF j.t = "int" THEN 10 * j.n ELSE j.f

(***************************************************************************)
(* str() of a value inside an f-string.                                    *)
(***************************************************************************)
Digit(d) == <<"0", "1", "2", "3", "4", "5", "6", "7", "8", "9">>[d + 1]
IsDigit(c) == c \in {Digit(d) : d \in 0..9}
DigitVal(c) == CHOOSE d \in 0..9 : Digit(d) = c

RECURSIVE NatStr(_)
NatStr(n) == IF n < 10 THEN <<Digit(n)>> ELSE NatStr(n \div 10) \o <<Digit(n % 10)>>

SignStr(n) == IF n < 0 THEN <<"-">> ELSE <<>>

PyStr(j) ==
  CASE j.t = "int" -> SignStr(j.n) \o NatStr(Abs(j.n))
    [] j.t = "float" -> SignStr(j.f) \o NatStr(Abs(j.f) \div 10) \o <<".", Digit(Abs(j.f) % 10)>>
    [] j.t = "str" -> j.s
    [] j.t = "null" -> <<"N", "o", "n", "e">>

(***************************************************************************)
(* str.rstrip(chars): drop every trailing character that is in chars.      *)
(***************************************************************************)
\* a slip: cut the last three characters instead of stripping the unit
rstrip_fixed(s, chars) == SubSeq(s, 1, Len(s) - 3)

RECURSIVE rstrip(_, _)
rstrip(s, chars) ==
  IF s # <<>> /\ s[Len(s)] \in chars THEN rstrip(SubSeq(s, 1, Len(s) - 1), chars) ELSE s

(***************************************************************************)
(* float(text): an optional sign, digits with at most one point, at least  *)
(* one digit; anything else raises ValueError.  The value is num / den.       *)
(***************************************************************************)
RECURSIVE DigitsVal(_)
DigitsVal(ds) ==
  IF ds = <<>> THEN 0 ELSE 10 * DigitsVal(SubSeq(ds, 1, Len(ds) - 1)) + DigitVal(ds[Len(ds)])

PyFloat(s) ==
  LET signed == s # <<>> /\ s[1] \in {"-", "+"}
      body == IF signed THEN Tail(s) ELSE s
      dots == {i \in 1..Len(body) : body[i] = "."}
      ds == SelectSeq(body, IsDigit)
      wellFormed == /\ Cardinality(dots) <= 1
                    /\ Len(ds) >= 1
                    /\ \A i \in 1..Len(body) : IsDigit(body[i]) \/ body[i] = "."
      scale == IF dots = {} THEN 0 ELSE Len(body) - (CHOOSE i \in dots : TRUE)
      mag == DigitsVal(ds)
  IN IF wellFormed
       THEN Ok([num |-> IF signed /\ s[1] = "-" THEN -mag ELSE mag, den |-> Pow10(scale)])
       ELSE Fail

(***************************************************************************)
(* Format with ":.0f": round to the nearest integer, ties to even; a       *)
(* negative value that rounds to zero keeps its sign ("-0").               *)
(***************************************************************************)
RoundHalfEven(num, den) ==
  LET q == num \div den
      r == num % den
  IN IF 2 * r < den THEN q
     ELSE IF 2 * r > den THEN q + 1
     ELSE IF q % 2 = 0 THEN q ELSE q + 1

Format0f(num, den) ==
  LET n == RoundHalfEven(num, den)
  IN IF n = 0 /\ num < 0 THEN <<"-", "0">> ELSE SignStr(n) \o NatStr(Abs(n))

(***************************************************************************)
(* convert_to_fahr: 9 / 5 * temp_C + 32, on the exact value.               *)
(***************************************************************************)
\* a slip: convert the rounded Celsius figure
convert_to_fahr_rounded(temp_C) ==
  [num |-> 9 * RoundHalfEven(temp_C.num, temp_C.den) + 160, den |-> 5]

convert_to_fahr(temp_C) == [num |-> 9 * temp_C.num + 160 * temp_C.den, den |-> 5 * temp_C.den]

(***************************************************************************)
(* get_current_weather: six fields of the details block, each formatted    *)
(* with its unit.  "deg" stands for the degree sign.  A missing key raises.*)
(***************************************************************************)
DetailKeys ==
  {"air_pressure_at_sea_level", "air_temperature", "cloud_area_fraction",
   "relative_humidity", "wind_from_direction", "wind_speed"}

get_current_weather(current_weather) ==
  IF DetailKeys \subseteq DOMAIN current_weather
    THEN Ok(("Air pressure" :> PyStr(current_weather["air_pressure_at_sea_level"]) \o <<"h", "P", "a">>)
         @@ ("Air temperature" :> PyStr(current_weather["air_temperature"]) \o <<"deg", "C">>)
         @@ ("Cloud area fraction" :> PyStr(current_weather["cloud_area_fraction"]) \o <<"%">>)
         @@ ("Relative humidity" :> PyStr(current_weather["relative_humidity"]) \o <<"%">>)
         @@ ("Wind direction (from)" :> PyStr(current_weather["wind_from_direction"]) \o <<"deg">>)
         @@ ("Wind speed" :> PyStr(current_weather["wind_speed"]) \o <<"m", "/", "s">>))
    ELSE Fail

(***************************************************************************)
(* get_weather_icons: the symbol codes of the next 1, 6 and 12 hours.      *)
(***************************************************************************)
IconKeys == {"next_1_hours", "next_6_hours", "next_12_hours"}

HasSymbol(icon_info, key) ==
  /\ Has(icon_info, key)
  /\ Has(icon_info[key], "summary")
  /\ Has(icon_info[key]["summary"], "symbol_code")

\* a slip: leave out the windows the entry does not have
get_weather_icons_lenient(icon_info) ==
  Ok([key \in {k \in IconKeys : HasSymbol(icon_info, k)} |->
        icon_info[key]["summary"]["symbol_code"]])

get_weather_icons(icon_info) ==
  IF \A key \in IconKeys : HasSymbol(icon_info, key)
    THEN Ok(("1h" :> icon_info["next_1_hours"]["summary"]["symbol_code"])
         @@ ("6h" :> icon_info["next_6_hours"]["summary"]["symbol_code"])
         @@ ("12h" :> icon_info["next_12_hours"]["summary"]["symbol_code"]))
    ELSE Fail

(***************************************************************************)
(* Timestamps.  The service writes "<day>T<hour>:00:00Z"; pd.to_datetime   *)
(* turns it into an instant (hours since day 0, UTC) and tz_convert        *)
(* attaches the zone.  The wall clock of a zoned timestamp is the instant  *)
(* plus the zone's offset at that instant (Europe/Berlin leaves summer     *)
(* time at instant 25).                                                    *)
(***************************************************************************)
KnownZones == {"UTC", "Africa/Nairobi", "Europe/Berlin", "America/Bogota"}

UTCOffset(tz, instant) ==
  CASE tz = "UTC" -> 0
    [] tz = "Africa/Nairobi" -> 3
    [] tz = "Europe/Berlin" -> IF instant < 25 THEN 2 ELSE 1
    [] tz = "America/Bogota" -> -5

\* a slip: keep the date, lose the hour
to_datetime_date(time) == 24 * time.day

to_datetime(time) == 24 * time.day + time.hour

tz_convert(instant, tz) == [instant |-> instant, tz |-> tz]

WallClock(ts) == ts.instant + UTCOffset(ts.tz, ts.instant)
LocalDay(ts) == WallClock(ts) \div 24
\* astype(str): date, hour and offset as written in the text of a timestamp
TimeText(ts) ==
  [day |-> LocalDay(ts), hour |-> WallClock(ts) % 24, offset |-> UTCOffset(ts.tz, ts.instant)]

(***************************************************************************)
(* get_temperature_time_series: one (timestamp, air_temperature) pair per  *)
(* entry, in the order of the entries, the index made time-zone aware.     *)
(***************************************************************************)
HasTemperature(entry) ==
  /\ Has(entry, "data")
  /\ Has(entry["data"], "instant")
  /\ Has(entry["data"]["instant"], "details")
  /\ Has(entry["data"]["instant"]["details"], "air_temperature")

\* a slip: drop the entries without a temperature
get_temperature_time_series_dropna(weather_info, timezone) ==
  IF /\ \A i \in 1..Len(weather_info) : Has(weather_info[i], "time") /\ HasTemperature(weather_info[i])
     /\ timezone \in KnownZones
    THEN LET kept == SelectSeq(weather_info,
                       LAMBDA e : e["data"]["instant"]["details"]["air_temperature"] # JNull)
         IN Ok([i \in 1..Len(kept) |->
                  [time |-> tz_convert(to_datetime(kept[i]["time"]), timezone),
                   temp |-> kept[i]["data"]["instant"]["details"]["air_temperature"]]])
    ELSE Fail

get_temperature_time_series(weather_info, timezone) ==
  IF /\ \A i \in 1..Len(weather_info) : Has(weather_info[i], "time") /\ HasTemperature(weather_info[i])
     /\ timezone \in KnownZones
    THEN Ok([i \in 1..Len(weather_info) |->
              [time |-> tz_convert(to_datetime(weather_info[i]["time"]), timezone),
               temp |-> weather_info[i]["data"]["instant"]["details"]["air_temperature"]]])
    ELSE Fail

(***************************************************************************)
(* plot_forecast: the data of the two figures.  The line chart shows the   *)
(* first 24 entries; the bar chart one (max, min) pair per calendar day    *)
(* from the first to the last day of the index, NaN for an empty day.      *)
(***************************************************************************)
SetMax(S) == CHOOSE m \in S : \A x \in S : x <= m
SetMin(S) == CHOOSE m \in S : \A x \in S : m <= x

DayValues(temp_data, day) ==
  {Tenths(temp_data[i].temp) : i \in {j \in 1..Len(temp_data) :
     LocalDay(temp_data[j].time) = day /\ IsNumber(temp_data[j].temp)}}

DayBucket(temp_data, day) ==
  LET vals == DayValues(temp_data, day)
  IN [day |-> day,
      max |-> IF vals = {} THEN NaN ELSE JFloat(SetMax(vals)),
      min |-> IF vals = {} THEN NaN ELSE JFloat(SetMin(vals))]

\* a slip: 24-hour windows counted from the first timestamp
resample_from_start(temp_data) ==
  LET instants == {temp_data[i].time.instant : i \in 1..Len(temp_data)}
      first == SetMin(instants)
      last == SetMax(instants)
      Window(k) == {Tenths(temp_data[i].temp) : i \in {j \in 1..Len(temp_data) :
                      /\ (temp_data[j].time.instant - first) \div 24 = k - 1
                      /\ IsNumber(temp_data[j].temp)}}
  IN IF temp_data = <<>> THEN <<>>
     ELSE [k \in 1..(((last - first) \div 24) + 1) |->
             [day |-> LocalDay(temp_data[1].time) + k - 1,
              max |-> IF Window(k) = {} THEN NaN ELSE JFloat(SetMax(Window(k))),
              min |-> IF Window(k) = {} THEN NaN ELSE JFloat(SetMin(Window(k)))]]

resample_1D(temp_data) ==
  LET days == {LocalDay(temp_data[i].time) : i \in 1..Len(temp_data)}
      first == SetMin(days)
      last == SetMax(days)
  IN IF temp_data = <<>> THEN <<>>
     ELSE [k \in 1..(last - first + 1) |-> DayBucket(temp_data, first + k - 1)]

plot_forecast(temp_data) ==
  LET temp24H == SubSeq(temp_data, 1, Min(24, Len(temp_data)))
      fig == [x |-> [i \in 1..Len(temp24H) |-> TimeText(temp24H[i].time)],
              y |-> [i \in 1..Len(temp24H) |-> temp24H[i].temp]]
      temp10D == resample_1D(temp_data)
  IN <<fig, temp10D>>

(***************************************************************************)
(* get_weather_info, after the response body has been decoded.             *)
(***************************************************************************)
get_weather_info(body, timezone) ==
  IF ~(Has(body, "properties") /\ Has(body["properties"], "timeseries")) THEN Fail
  ELSE LET raw_data == body["properties"]["timeseries"]
       IN IF raw_data = <<>> THEN Fail
          ELSE IF ~(Has(raw_data[1], "data") /\ Has(raw_data[1]["data"], "instant")
                    /\ Has(raw_data[1]["data"]["instant"], "details")) THEN Fail
          ELSE LET current_weather == get_current_weather(raw_data[1]["data"]["instant"]["details"])
                   weather_icons == get_weather_icons(raw_data[1]["data"])
                   temp_time_series == get_temperature_time_series(raw_data, timezone)
               IN IF current_weather.ok /\ weather_icons.ok /\ temp_time_series.ok
                    THEN Ok([current_weather |-> current_weather.val,
                             weather_icons |-> weather_icons.val,
                             temp_time_series |-> temp_time_series.val])
                    ELSE Fail

(***************************************************************************)
(* The headline of process_weather_forecast.                               *)
(***************************************************************************)
headline_temp_C(weather_info) ==
  PyFloat(rstrip(weather_info["current_weather"]["Air temperature"], {"deg", "C"}))

headline(temp_C, temp_F, location) ==
  <<"It's ">> \o Format0f(temp_C.num, temp_C.den) \o <<"deg", "C", " (">>
    \o Format0f(temp_F.num, temp_F.den) \o <<"deg", "F", ") in ">>
    \o PyStr(location["city"]) \o <<", ">> \o PyStr(location["country"]) \o <<" right now.">>

(***************************************************************************)
(* Payloads.                                                               *)
(***************************************************************************)
Details(temp) ==
  [air_pressure_at_sea_level |-> JFloat(10130), air_temperature |-> temp,
   cloud_area_fraction |-> JFloat(500), relative_humidity |-> JFloat(800),
   wind_from_direction |-> JFloat(2700), wind_speed |-> JFloat(30)]

DetailsNoTemp ==
  [air_pressure_at_sea_level |-> JFloat(10130),
   cloud_area_fraction |-> JFloat(500), relative_humidity |-> JFloat(800),
   wind_from_direction |-> JFloat(2700), wind_speed |-> JFloat(30)]

Summary(code) == [summary |-> [symbol_code |-> code]]

Entry(time, temp) ==
  [time |-> time,
   data |-> [instant |-> [details |-> Details(temp)],
             next_1_hours |-> Summary("cloudy"),
             next_6_hours |-> Summary("rain"),
             next_12_hours |-> Summary("fair_day")]]

EntryNoTemp(time) ==
  [time |-> time,
   data |-> [instant |-> [details |-> DetailsNoTemp],
             next_1_hours |-> Summary("cloudy"),
             next_6_hours |-> Summary("rain"),
             next_12_hours |-> Summary("fair_day")]]

\* an entry near the end of the forecast: no 12-hour summary
EntryNo12(time, temp) ==
  [time |-> time,
   data |-> [instant |-> [details |-> Details(temp)],
             next_1_hours |-> Summary("cloudy"),
             next_6_hours |-> Summary("rain")]]

TimeOf(h) == [day |-> h \div 24, hour |-> h % 24]

TempCycle == <<146, 25, -30, 0, 151, -75, 98>>
TempAt(k) == JFloat(TempCycle[(k % Len(TempCycle)) + 1])

\* what the weather service sends: n entries, ascending, one every `every` hours
ServicePayload(startHour, n, every, phase) ==
  [i \in 1..n |-> Entry(TimeOf(startHour + every * (i - 1)), TempAt(phase + i - 1))]

ServicePayloads ==
  {ServicePayload(h, n, e, ph) : h \in 0..23, n \in 1..MaxHours, e \in {1, 6}, ph \in 0..1}

\* hand-built payloads: any order, repeated timestamps, missing values
ArbitraryEntries ==
  {Entry(TimeOf(h), temp) : h \in {22, 23, 24}, temp \in {JFloat(146), JNull}}
    \cup {Entry(TimeOf(23), JInt(-3)), EntryNoTemp(TimeOf(23))}

ArbitraryPayloads == UNION {[1..n -> ArbitraryEntries] : n \in 1..MaxLen}

\* one entry, every temperature of the range
Temperatures ==
  {JFloat(t) : t \in (-MaxTenths)..MaxTenths}
    \cup {JInt(n) : n \in (-(MaxTenths \div 10))..(MaxTenths \div 10)}
    \cup {JNull}

SinglePayloads == {<<Entry(TimeOf(0), temp)>> : temp \in Temperatures}

SampleLocation ==
  [city |-> JStr(<<"Nairobi">>), country |-> JStr(<<"Kenya">>),
   lat |-> JFloat(-13), lon |-> JFloat(368), timezone |-> JStr(<<"Africa/Nairobi">>)]

(***************************************************************************)
(* process_weather_forecast, from the decoded weather response on.         *)
(***************************************************************************)
\* the zone named by the location's timezone field
ZoneName(j) == IF j.t = "str" /\ Len(j.s) = 1 THEN j.s[1] ELSE "?"

forecast_result(ip, loc, body) ==
  LET weather_info == get_weather_info(body, ZoneName(loc["timezone"]))
  IN IF ~weather_info.ok THEN Fail
     ELSE LET tC == headline_temp_C(weather_info.val)
          IN IF ~tC.ok THEN Fail
             ELSE Ok([graphs |-> plot_forecast(weather_info.val["temp_time_series"]),
                      headline |-> headline(tC.val, convert_to_fahr(tC.val), loc),
                      ip_address |-> ip,
                      data |-> weather_info.val])

(***************************************************************************)
(* get_location, after the response has arrived: decode the JSON body and  *)
(* project the five keys.                                                  *)
(***************************************************************************)
LocationKeys == {"city", "country", "lat", "lon", "timezone"}

get_location(response) ==
  IF response.kind # "json" THEN Fail
  ELSE IF ~(LocationKeys \subseteq DOMAIN response.body) THEN Fail
  ELSE Ok([key \in LocationKeys |-> response.body[key]])

(***************************************************************************)
(* The process: configuration, response cache, upstream services.          *)
(***************************************************************************)
FLUSH_PERIOD == 10 * 60

TickSeconds == 300   \* the clock advances in steps of this many seconds
MaxClock == 600      \* and stops here

\* two page requests, handled one after the other or at the same time
Reqs == {1, 2}

XFF == "X-Forwarded-For"

\* what the proxy may put in the header: one address, or a list of them
HeaderValues == {<<"41.90.64.1">>, <<"10.0.0.7", "41.90.64.1">>}
RequestHeaders == {<<>>} \cup {(XFF :> h) : h \in HeaderValues}

TextResponse(text) == [kind |-> "text", text |-> text]
JsonResponse(body) == [kind |-> "json", body |-> body]

ProbeResponses == {TextResponse(<<"41.90.64.1">>)}

GeoResponses ==
  { JsonResponse(SampleLocation @@ [status |-> JStr(<<"success">>), isp |-> JStr(<<"Safaricom">>)]),
    JsonResponse([status |-> JStr(<<"fail">>), message |-> JStr(<<"invalid query">>)]),
    JsonResponse([city |-> JNull, country |-> JStr(<<"Kenya">>), lat |-> JStr(<<"-1.3">>),
                  lon |-> JFloat(368), timezone |-> JStr(<<"Africa/Nairobi">>)]) }

WeatherResponses ==
  { JsonResponse([properties |-> [timeseries |-> ServicePayload(22, 3, 1, 0)]]),
    JsonResponse([properties |-> [timeseries |->
       <<EntryNo12(TimeOf(22), JFloat(146)), EntryNo12(TimeOf(23), JFloat(25))>>]]),
    JsonResponse([properties |-> [timeseries |-> <<Entry(TimeOf(22), JNull)>>]]),
    TextResponse(<<"<html>">>) }

ResponsesOf(svc) ==
  CASE svc = "ident.me" -> ProbeResponses
    [] svc = "ip-api.com" -> GeoResponses
    [] svc = "api.met.no" -> WeatherResponses

VARIABLES raw_data, timezone, origin, step, temp_data, graphs, current, temp_C, head

VARIABLES DEPLOY, clock, cache, upstream, pc, headers, ip_address, location, forecast,
          weather_response, trace

tvars == <<raw_data, timezone, origin, step, temp_data, graphs, current, temp_C, head>>

hvars == <<DEPLOY, clock, cache, upstream, pc, headers, ip_address, location, forecast,
           weather_response, trace>>

vars == <<tvars, hvars>>

\* the values of the request handler's variables while only the functions are exercised
HandlerAtRest ==
  /\ DEPLOY = "unset"
  /\ clock = 0
  /\ cache = {}
  /\ upstream = {}
  /\ pc = [r \in Reqs |-> "idle"]
  /\ headers = [r \in Reqs |-> <<>>]
  /\ ip_address = [r \in Reqs |-> <<>>]
  /\ location = [r \in Reqs |-> NotCalled]
  /\ forecast = [r \in Reqs |-> NotCalled]
  /\ weather_response = [r \in Reqs |-> NotCalled]
  /\ trace = [r \in Reqs |-> <<>>]

\* the values of the function variables while the request handler runs
FunctionsAtRest ==
  /\ raw_data = <<>>
  /\ timezone = "UTC"
  /\ origin = "direct"
  /\ step = "input"
  /\ temp_data = NotCalled
  /\ graphs = NotCalled
  /\ current = NotCalled
  /\ temp_C = NotCalled
  /\ head = NotCalled

(***************************************************************************)
(* The transformation functions applied to one payload, in the order in    *)
(* which process_weather_forecast needs their results.                     *)
(***************************************************************************)
TInit ==
  /\ \/ origin = "service" /\ raw_data \in ServicePayloads /\ timezone \in KnownZones
     \/ origin = "direct" /\ raw_data \in ArbitraryPayloads
          /\ timezone \in KnownZones \cup {"Mars/Phobos"}
     \/ origin = "direct" /\ raw_data \in SinglePayloads /\ timezone = "UTC"
  /\ step = "input"
  /\ temp_data = NotCalled
  /\ graphs = NotCalled
  /\ current = NotCalled
  /\ temp_C = NotCalled
  /\ head = NotCalled
  /\ HandlerAtRest

CallGetTemperatureTimeSeries ==
  /\ step = "input"
  /\ temp_data' = get_temperature_time_series(raw_data, timezone)
  /\ step' = IF temp_data'.ok THEN "series" ELSE "plotted"
  /\ UNCHANGED <<raw_data, timezone, origin, graphs, current, temp_C, head, hvars>>

CallPlotForecast ==
  /\ step = "series"
  /\ graphs' = Ok(plot_forecast(temp_data.val))
  /\ step' = "plotted"
  /\ UNCHANGED <<raw_data, timezone, origin, temp_data, current, temp_C, head, hvars>>

CallGetCurrentWeather ==
  /\ step = "plotted"
  /\ current' = get_current_weather(raw_data[1]["data"]["instant"]["details"])
  /\ step' = IF current'.ok THEN "current" ELSE "done"
  /\ UNCHANGED <<raw_data, timezone, origin, temp_data, graphs, temp_C, head, hvars>>

CallParseTemperature ==
  /\ step = "current"
  /\ temp_C' = headline_temp_C([current_weather |-> current.val])
  /\ step' = IF temp_C'.ok THEN "parsed" ELSE "done"
  /\ UNCHANGED <<raw_data, timezone, origin, temp_data, graphs, current, head, hvars>>

CallHeadline ==
  /\ step = "parsed"
  /\ head' = Ok(headline(temp_C.val, convert_to_fahr(temp_C.val), SampleLocation))
  /\ step' = "done"
  /\ UNCHANGED <<raw_data, timezone, origin, temp_data, graphs, current, temp_C, hvars>>

TNext ==
  \/ CallGetTemperatureTimeSeries
  \/ CallPlotForecast
  \/ CallGetCurrentWeather
  \/ CallParseTemperature
  \/ CallHeadline

SpecTransform == TInit /\ [][TNext]_vars

(***************************************************************************)
(* The request handler.  main() runs once per page request; every          *)
(* requests.get goes through the cache installed by install_cache: a       *)
(* stored response answers the call until it expires, otherwise the call   *)
(* goes to the upstream service and its response is stored on return.      *)
(* A request blocks while it waits for an upstream service, and other      *)
(* requests run meanwhile.                                                 *)
(***************************************************************************)
\* a slip: every stored response counts as expired
is_expired_always(entry, now) == TRUE

is_expired(entry, now) == now >= entry.stored + FLUSH_PERIOD

CachedFor(url) == {e \in cache : e.url = url /\ ~is_expired(e, clock)}

\* a slip: the address is always probed
behind_proxy_never(deploy) == FALSE

\* `if DEPLOY == "heroku"`
behind_proxy(deploy) == deploy = "heroku"

ServiceAt(state) ==
  CASE state \in {"probe", "probe_wait"} -> "ident.me"
    [] state \in {"location", "location_wait"} -> "ip-api.com"
    [] state \in {"weather", "weather_wait"} -> "api.met.no"

\* the URL and parameters of the call request r is about to make or waits for
Url(r) ==
  CASE ServiceAt(pc[r]) = "ident.me" -> <<"ident.me", <<>>>>
    [] ServiceAt(pc[r]) = "ip-api.com" -> <<"ip-api.com", ip_address[r]>>
    [] ServiceAt(pc[r]) = "api.met.no" ->
         <<"api.met.no", <<location[r].val["lat"], location[r].val["lon"]>>>>

Calling == {"probe", "location", "weather"}
Waiting == {"probe_wait", "location_wait", "weather_wait"}
WaitOf(state) ==
  CASE state = "probe" -> "probe_wait"
    [] state = "location" -> "location_wait"
    [] state = "weather" -> "weather_wait"

Init ==
  /\ DEPLOY \in {"heroku", "unset"}
  /\ clock = 0
  /\ cache = {}
  /\ upstream = {}
  /\ pc = [r \in Reqs |-> "idle"]
  /\ headers = [r \in Reqs |-> <<>>]
  /\ ip_address = [r \in Reqs |-> <<>>]
  /\ location = [r \in Reqs |-> NotCalled]
  /\ forecast = [r \in Reqs |-> NotCalled]
  /\ weather_response = [r \in Reqs |-> NotCalled]
  /\ trace = [r \in Reqs |-> <<>>]
  /\ FunctionsAtRest

\* the proxy of the deployment adds the header; a local client sends none
HeadersSent == IF DEPLOY = "heroku" THEN RequestHeaders ELSE {<<>>}

\* main(), up to its first HTTP call
main(r, hdrs) ==
  /\ pc[r] = "idle"
  /\ headers' = [headers EXCEPT ![r] = hdrs]
  /\ IF behind_proxy(DEPLOY)
       THEN IF Has(hdrs, XFF)
              THEN /\ ip_address' = [ip_address EXCEPT ![r] = hdrs[XFF]]
                   /\ pc' = [pc EXCEPT ![r] = "location"]
              ELSE /\ pc' = [pc EXCEPT ![r] = "error"]
                   /\ UNCHANGED ip_address
       ELSE /\ pc' = [pc EXCEPT ![r] = "probe"]
            /\ UNCHANGED ip_address
  /\ UNCHANGED <<DEPLOY, clock, cache, upstream, location, forecast, weather_response, trace, tvars>>

\* the code that runs when the requests.get of request r returns `response`
Resume(r, response) ==
  CASE ServiceAt(pc[r]) = "ident.me" ->
         /\ ip_address' = [ip_address EXCEPT ![r] = response.text]
         /\ pc' = [pc EXCEPT ![r] = "location"]
         /\ UNCHANGED <<location, forecast, weather_response>>
    [] ServiceAt(pc[r]) = "ip-api.com" ->
         /\ location' = [location EXCEPT ![r] = get_location(response)]
         /\ pc' = [pc EXCEPT ![r] = IF location'[r].ok THEN "weather" ELSE "error"]
         /\ UNCHANGED <<ip_address, forecast, weather_response>>
    [] ServiceAt(pc[r]) = "api.met.no" ->
         /\ weather_response' = [weather_response EXCEPT ![r] = response]
         /\ forecast' = [forecast EXCEPT ![r] =
              IF response.kind = "json"
                THEN forecast_result(ip_address[r], location[r].val, response.body)
                ELSE Fail]
         /\ pc' = [pc EXCEPT ![r] = IF forecast'[r].ok THEN "done" ELSE "error"]
         /\ UNCHANGED <<ip_address, location>>

\* requests.get: the cache is consulted first
CacheLookup(r) ==
  /\ pc[r] \in Calling
  /\ IF CachedFor(Url(r)) # {}
       THEN /\ \E e \in CachedFor(Url(r)) : Resume(r, e.response)
            /\ trace' = [trace EXCEPT ![r] =
                 @ \o <<<<"get", ServiceAt(pc[r])>>, <<"return", ServiceAt(pc[r])>>>>]
            /\ UNCHANGED upstream
       ELSE /\ pc' = [pc EXCEPT ![r] = WaitOf(pc[r])]
            /\ upstream' = upstream \cup {[url |-> Url(r), req |-> r, at |-> clock]}
            /\ trace' = [trace EXCEPT ![r] = Append(@, <<"get", ServiceAt(pc[r])>>)]
            /\ UNCHANGED <<ip_address, location, forecast, weather_response>>
  /\ UNCHANGED <<DEPLOY, clock, cache, headers, tvars>>

\* the upstream service answers; the response is stored and the code goes on
UpstreamReply(r, response) ==
  /\ pc[r] \in Waiting
  /\ response \in ResponsesOf(ServiceAt(pc[r]))
  /\ cache' = {e \in cache : e.url # Url(r)}
                \cup {[url |-> Url(r), stored |-> clock, response |-> response]}
  /\ Resume(r, response)
  /\ trace' = [trace EXCEPT ![r] = Append(@, <<"return", ServiceAt(pc[r])>>)]
  /\ UNCHANGED <<DEPLOY, clock, upstream, headers, tvars>>

\* the upstream service cannot be reached: requests.get raises
UpstreamError(r) ==
  /\ pc[r] \in Waiting
  /\ pc' = [pc EXCEPT ![r] = "error"]
  /\ trace' = [trace EXCEPT ![r] = Append(@, <<"raise", ServiceAt(pc[r])>>)]
  /\ UNCHANGED <<DEPLOY, clock, cache, upstream, headers, ip_address, location, forecast,
                 weather_response, tvars>>

Tick ==
  /\ clock + TickSeconds <= MaxClock
  /\ clock' = clock + TickSeconds
  /\ UNCHANGED <<DEPLOY, cache, upstream, pc, headers, ip_address, location, forecast,
                 weather_response, trace, tvars>>

Next ==
  \/ \E r \in Reqs, hdrs \in HeadersSent : main(r, hdrs)
  \/ \E r \in Reqs : CacheLookup(r)
  \/ \E r \in Reqs, response \in GeoResponses \cup WeatherResponses \cup ProbeResponses :
       UpstreamReply(r, response)
  \/ \E r \in Reqs : UpstreamError(r)
  \/ Tick

Spec == Init /\ [][Next]_vars

(***************************************************************************)
(* Properties of the transformation functions (under SpecTransform).       *)
(***************************************************************************)
InstantOf(entry) == 24 * entry["time"].day + entry["time"].hour
TempOf(entry) == entry["data"]["instant"]["details"]["air_temperature"]

\* C5: whenever get_temperature_time_series returns, the series has as many
\* entries as the payload and its i-th entry is the i-th payload entry's
\* timestamp in the supplied timezone paired with that entry's air
\* temperature: nothing is dropped, merged or re-ordered.
C5_SeriesMirrorsPayload ==
  (temp_data # NotCalled /\ temp_data.ok) =>
    /\ Len(temp_data.val) = Len(raw_data)
    /\ \A i \in 1..Len(raw_data) :
         /\ temp_data.val[i].time.instant = InstantOf(raw_data[i])
         /\ temp_data.val[i].time.tz = timezone
         /\ temp_data.val[i].temp = TempOf(raw_data[i])

\* the case of C5: a payload out of order with a missing value, converted
C5_Witness ==
  /\ temp_data # NotCalled /\ temp_data.ok
  /\ Len(raw_data) = 3
  /\ InstantOf(raw_data[1]) > InstantOf(raw_data[2])
  /\ InstantOf(raw_data[2]) = InstantOf(raw_data[3])
  /\ TempOf(raw_data[2]) = JNull
  /\ timezone = "Africa/Nairobi"

IsHourly(payload) ==
  \A i \in 1..(Len(payload) - 1) : InstantOf(payload[i + 1]) = InstantOf(payload[i]) + 1

\* the calendar day, in zone tz, of a payload entry
EntryDay(entry, tz) == (InstantOf(entry) + UTCOffset(tz, InstantOf(entry))) \div 24

ObservedOn(payload, tz, day) ==
  {Tenths(TempOf(payload[i])) : i \in {j \in 1..Len(payload) :
     EntryDay(payload[j], tz) = day /\ IsNumber(TempOf(payload[j]))}}

BucketsOf(day) == {k \in 1..Len(graphs.val[2]) : graphs.val[2][k].day = day}

EveryObservedDayHasItsBucket ==
  \A i \in 1..Len(raw_data) :
    LET day == EntryDay(raw_data[i], timezone)
        obs == ObservedOn(raw_data, timezone, day)
    IN /\ Cardinality(BucketsOf(day)) = 1
       /\ \A k \in BucketsOf(day) :
            IF obs = {} THEN graphs.val[2][k].max = NaN /\ graphs.val[2][k].min = NaN
            ELSE /\ graphs.val[2][k].max = JFloat(SetMax(obs))
                 /\ graphs.val[2][k].min = JFloat(SetMin(obs))

\* C6 (as stated): any 26-hour hourly series in UTC gives exactly two day
\* buckets, the second holding the max and min of 2 hours only.
C6_AnyStart ==
  (graphs # NotCalled /\ timezone = "UTC" /\ Len(raw_data) = 26 /\ IsHourly(raw_data)) =>
    /\ Len(graphs.val[2]) = 2
    /\ graphs.val[2][2].max = JFloat(SetMax({Tenths(TempOf(raw_data[i])) : i \in 25..26}))
    /\ graphs.val[2][2].min = JFloat(SetMin({Tenths(TempOf(raw_data[i])) : i \in 25..26}))

\* C6 (amended): a 26-hour hourly series in UTC that starts at 00:00 gives
\* exactly two day buckets, the second holding the max and min of its last 2
\* hours only; and for every series every calendar day with an observation
\* has exactly one bucket, whose max and min are those of the values
\* observed on that day.
C6_MidnightStart ==
  (graphs # NotCalled) =>
    /\ (timezone = "UTC" /\ Len(raw_data) = 26 /\ IsHourly(raw_data)
          /\ raw_data[1]["time"].hour = 0) =>
         /\ Len(graphs.val[2]) = 2
         /\ graphs.val[2][2].max = JFloat(SetMax({Tenths(TempOf(raw_data[i])) : i \in 25..26}))
         /\ graphs.val[2][2].min = JFloat(SetMin({Tenths(TempOf(raw_data[i])) : i \in 25..26}))
    /\ EveryObservedDayHasItsBucket

C6_Witness ==
  /\ graphs # NotCalled
  /\ timezone = "UTC" /\ Len(raw_data) = 26 /\ IsHourly(raw_data)
  /\ raw_data[1]["time"].hour = 0
  /\ Len(graphs.val[2]) = 2
  /\ graphs.val[2][1].min # graphs.val[2][2].min

\* C9: a series built from a payload of the weather service (entries in
\* ascending time order) and handed to plot_forecast has strictly
\* increasing timestamps.
C9_ServiceSeriesIncreasing ==
  (origin = "service" /\ graphs # NotCalled) =>
    \A i, j \in 1..Len(temp_data.val) :
      i < j => temp_data.val[i].time.instant < temp_data.val[j].time.instant

\* the case of C9: a service payload that crosses the end of summer time
C9_Witness ==
  /\ origin = "service" /\ graphs # NotCalled
  /\ timezone = "Europe/Berlin"
  /\ Len(temp_data.val) = 26
  /\ \E i \in 1..25 : WallClock(temp_data.val[i].time) = WallClock(temp_data.val[i + 1].time)

HeadlineText(c, f) ==
  <<"It's ">> \o c \o <<"deg", "C", " (">> \o f \o <<"deg", "F", ") in ">>
    \o <<"Nairobi", ", ", "Kenya", " right now.">>

\* the texts of the integers nearest to num / den
NearestTexts(num, den) ==
  {IF n = 0 /\ num < 0 THEN <<"-", "0">> ELSE SignStr(n) \o NatStr(Abs(n)) :
     n \in {m \in ((num \div den) - 1)..((num \div den) + 1) : 2 * Abs(den * m - num) <= den}}

\* C7 (as stated): the headline for 14.6 shows 15 and 59.
C7_Shows59 ==
  (head # NotCalled /\ TempOf(raw_data[1]) = JFloat(146)) =>
    head.val = HeadlineText(<<"1", "5">>, <<"5", "9">>)

\* C7 (amended): the headline for 14.6 shows 15 and 58; for every
\* temperature c the Celsius figure is an integer nearest to c and the
\* Fahrenheit figure an integer nearest to 9/5*c+32 of the unrounded c.
C7_IndependentRounding ==
  (head # NotCalled) =>
    LET c == Tenths(TempOf(raw_data[1]))
    IN /\ \E ct \in NearestTexts(c, 10), ft \in NearestTexts(18 * c + 3200, 100) :
            head.val = HeadlineText(ct, ft)
       /\ c = 146 => head.val = HeadlineText(<<"1", "5">>, <<"5", "8">>)

C7_Witness ==
  /\ head # NotCalled
  /\ TempOf(raw_data[1]) = JFloat(146)
  /\ head.val = HeadlineText(<<"1", "5">>, <<"5", "8">>)

\* C10: for a numeric air_temperature the value parsed back from the
\* formatted "Air temperature" text equals the original value; when the
\* text left after stripping is not a number, no headline is produced.
C10_RoundTrip ==
  (current # NotCalled /\ current.ok /\ step \in {"parsed", "done"}) =>
    LET orig == TempOf(raw_data[1])
    IN /\ IsNumber(orig) =>
            /\ temp_C.ok
            /\ 10 * temp_C.val.num = Tenths(orig) * temp_C.val.den
       /\ ~IsNumber(orig) => temp_C = Fail /\ head = NotCalled /\ step = "done"

C10_Witness ==
  /\ step = "done" /\ head # NotCalled
  /\ TempOf(raw_data[1]) = JFloat(-75)
  /\ temp_C.val = [num |-> -75, den |-> 10]

(***************************************************************************)
(* Properties of the request handler (under Spec).                         *)
(***************************************************************************)
CallsOf(r, svc) == {u \in upstream : u.req = r /\ u.url[1] = svc}
Services == {"ident.me", "ip-api.com", "api.met.no"}

\* a step of the forecast transformation fails on this weather response
TransformFails(response, tz) ==
  \/ response.kind # "json"
  \/ ~Has(response.body, "properties")
  \/ LET series == response.body["properties"]["timeseries"]
         first == series[1]["data"]
         cur == get_current_weather(first["instant"]["details"])
     IN \/ ~cur.ok
        \/ \E key \in IconKeys : ~Has(first, key)
        \/ \E i \in 1..Len(series) : ~HasTemperature(series[i])
        \/ tz \notin KnownZones
        \/ ~IsNumber(first["instant"]["details"]["air_temperature"])

\* C1: a request is all or nothing.  A request in the error state has no
\* result; a result exists only for a finished request and has all four
\* parts; a failed location lookup or a weather response on which a
\* transformation step fails leaves the request in the error state; and no
\* request calls the same upstream service twice.
C1_AllOrNothing ==
  \A r \in Reqs :
    /\ pc[r] = "error" => forecast[r] \in {NotCalled, Fail}
    /\ (forecast[r] # NotCalled /\ forecast[r].ok) =>
         /\ pc[r] = "done"
         /\ DOMAIN forecast[r].val = {"graphs", "headline", "ip_address", "data"}
         /\ DOMAIN forecast[r].val["data"] = {"current_weather", "weather_icons", "temp_time_series"}
    /\ location[r] = Fail =>
         pc[r] = "error" /\ weather_response[r] = NotCalled /\ CallsOf(r, "api.met.no") = {}
    /\ (weather_response[r] # NotCalled
          /\ TransformFails(weather_response[r], ZoneName(location[r].val["timezone"]))) =>
         pc[r] = "error" /\ forecast[r] = Fail
    /\ \A svc \in Services : Cardinality(CallsOf(r, svc)) <= 1

\* the case of C1: the first entry has no 12-hour window
C1_Witness ==
  \E r \in Reqs :
    /\ pc[r] = "error"
    /\ weather_response[r] # NotCalled
    /\ weather_response[r].kind = "json"
    /\ ~Has(weather_response[r].body["properties"]["timeseries"][1]["data"], "next_12_hours")
    /\ forecast[r] = Fail

\* C2: behind the proxy the address looked up, and reported in the result,
\* is the first address of the forwarded header; locally it is the text the
\* probe service answered.
C2_FirstForwardedAddress ==
  \A r \in Reqs :
    /\ (DEPLOY = "heroku" /\ Has(headers[r], XFF) /\ pc[r] # "idle") =>
         /\ ip_address[r] = <<headers[r][XFF][1]>>
         /\ (forecast[r] # NotCalled /\ forecast[r].ok) =>
              forecast[r].val["ip_address"] = <<headers[r][XFF][1]>>
    /\ (DEPLOY # "heroku" /\ pc[r] \in {"location", "location_wait", "weather", "weather_wait", "done"}) =>
         ip_address[r] \in {resp.text : resp \in ProbeResponses}

GetsOf(r) == SelectSeq(trace[r], LAMBDA ev : ev[1] = "get")

\* C3 (as stated): a finished request has made exactly the three calls
\* probe, geolocation, weather, in that order, in either mode.
C3_ThreeCallsInEitherMode ==
  \A r \in Reqs :
    pc[r] = "done" =>
      GetsOf(r) = <<<<"get", "ident.me">>, <<"get", "ip-api.com">>, <<"get", "api.met.no">>>>

ChainOf(deploy) ==
  IF deploy = "heroku"
    THEN <<<<"get", "ip-api.com">>, <<"return", "ip-api.com">>,
           <<"get", "api.met.no">>, <<"return", "api.met.no">>>>
    ELSE <<<<"get", "ident.me">>, <<"return", "ident.me">>,
           <<"get", "ip-api.com">>, <<"return", "ip-api.com">>,
           <<"get", "api.met.no">>, <<"return", "api.met.no">>>>

\* C3 (amended): a request makes its HTTP calls one after the other, each
\* after the previous one has returned and none twice: probe, geolocation,
\* weather in local mode, and only geolocation, weather behind the proxy.
\* A finished request has made all of them; a failed one stops at the call
\* that failed; each call reaches its upstream service at most once.
C3_ChainByMode ==
  \A r \in Reqs :
    LET chain == ChainOf(DEPLOY)
        t == trace[r]
    IN /\ Len(t) <= Len(chain)
       /\ \A i \in 1..Len(t) :
            \/ t[i] = chain[i]
            \/ i = Len(t) /\ chain[i][1] = "return" /\ t[i] = <<"raise", chain[i][2]>>
                 /\ pc[r] = "error"
       /\ pc[r] = "done" => t = chain
       /\ \A svc \in Services :
            /\ Cardinality(CallsOf(r, svc)) <= 1
            /\ CallsOf(r, svc) # {} => \E i \in 1..Len(t) : t[i] = <<"get", svc>>

\* the case of C3: a request behind the proxy, finished after two calls
C3_Witness ==
  \E r \in Reqs :
    /\ DEPLOY = "heroku" /\ pc[r] = "done"
    /\ Len(GetsOf(r)) = 2
    /\ Cardinality({u \in upstream : u.req = r}) = 2

\* C4 (as stated): two upstream calls for the same URL and parameters are
\* never made within one expiry window.
C4_OneUpstreamCallPerWindow ==
  \A u1, u2 \in upstream :
    (u1 # u2 /\ u1.url = u2.url) => Abs(u1.at - u2.at) >= 600

\* C4 (amended): a request made while a response for the same URL and
\* parameters is in the cache, stored less than 10 minutes before, is
\* served from the cache: it makes no upstream call and does not wait.
C4_StoredResponseServes ==
  [][\A r \in Reqs :
       (/\ pc[r] \in Calling
        /\ pc'[r] # pc[r]
        /\ \E e \in cache : e.url = Url(r) /\ clock - e.stored < 600)
       => (upstream' = upstream /\ cache' = cache /\ pc'[r] \notin Waiting)]_vars

\* the case of C4: a finished request that never reached an upstream service
C4_Witness ==
  \E r \in Reqs :
    /\ pc[r] = "done"
    /\ {u \in upstream : u.req = r} = {}
    /\ Len(GetsOf(r)) >= 2

IsText(j) == j.t = "str"

\* C8: a Location that get_location returns holds exactly the five fields,
\* city, country and timezone being text and lat and lon numbers.
C8_TypedLocation ==
  \A r \in Reqs :
    (location[r] # NotCalled /\ location[r].ok) =>
      /\ DOMAIN location[r].val = LocationKeys
      /\ IsText(location[r].val["city"])
      /\ IsText(location[r].val["country"])
      /\ IsText(location[r].val["timezone"])
      /\ IsNumber(location[r].val["lat"])
      /\ IsNumber(location[r].val["lon"])

====
